---- MODULE Spec2Model ----
(***************************************************************************)
(* Model of app/parse.py: a Selenium scraper that walks six categories of  *)
(* a demo shop, presses the "More" button of the paginated ones until it   *)
(* disappears, parses every rendered product and writes one CSV file per   *)
(* category.  The browser and the site are the environment; every page     *)
(* operation and every log line of a run is recorded in `trace`.           *)
(***************************************************************************)
EXTENDS Integers, Sequences, FiniteSets, TLC

\* ------------------------------------------------------------------ bounds
\* Longest first page of the one category whose first page is varied.
MaxItems == 1

\* Most star icons an item of the parsing runs shows.
MaxStars == 3

\* ------------------------------------------------------- text conversions
\* Texts that the program converts are sequences of one-character strings.
None == "None"
ValueError == "ValueError"
IndexError == "IndexError"
NoSuchElementException == "NoSuchElementException"
StaleElementReferenceException == "StaleElementReferenceException"
ElementClickInterceptedException == "ElementClickInterceptedException"
WebDriverException == "WebDriverException"
OSError == "OSError"

DigitChars == <<"0", "1", "2", "3", "4", "5", "6", "7", "8", "9">>
Digits == {DigitChars[i] : i \in 1..10}
DigitVal(ch) == (CHOOSE i \in 1..10 : DigitChars[i] = ch) - 1

RECURSIVE Remove(_, _)
\* str.replace(ch, ""): every occurrence of ch is removed.
Remove(s, ch) ==
    IF s = <<>> THEN <<>>
    ELSE IF Head(s) = ch THEN Remove(Tail(s), ch)
    ELSE <<Head(s)>> \o Remove(Tail(s), ch)

RECURSIVE LStrip(_)
LStrip(s) == IF s # <<>> /\ Head(s) = " " THEN LStrip(Tail(s)) ELSE s

RECURSIVE RStrip(_)
RStrip(s) ==
    IF s # <<>> /\ s[Len(s)] = " " THEN RStrip(SubSeq(s, 1, Len(s) - 1)) ELSE s

Strip(s) == RStrip(LStrip(s))

RECURSIVE TakeToken(_)
\* the leading run of non-blank characters
TakeToken(s) ==
    IF s = <<>> \/ Head(s) = " " THEN <<>>
    ELSE <<Head(s)>> \o TakeToken(Tail(s))

\* A conversion result: the value, or the exception raised instead.
Ok(v) == [raised |-> None, value |-> v]
Raised(e) == [raised |-> e, value |-> <<>>]
IsRaised(r) == r.raised # None

\* str.split()[0]: the first whitespace-separated token, IndexError if none.
FirstToken(s) ==
    IF LStrip(s) = <<>> THEN Raised(IndexError) ELSE Ok(TakeToken(LStrip(s)))

AllDigits(s) == \A i \in 1..Len(s) : s[i] \in Digits

RECURSIVE DigitsVal(_)
DigitsVal(s) ==
    IF s = <<>> THEN 0
    ELSE 10 * DigitsVal(SubSeq(s, 1, Len(s) - 1)) + DigitVal(s[Len(s)])

RECURSIVE Pow10(_)
Pow10(n) == IF n = 0 THEN 1 ELSE 10 * Pow10(n - 1)

HasSign(s) == s # <<>> /\ Head(s) \in {"-", "+"}
Unsigned(s) == IF HasSign(s) THEN Tail(s) ELSE s

\* int(text): blanks stripped, optional sign, decimal digits.
ParseInt(text) ==
    LET s == Strip(text)
        body == Unsigned(s)
    IN  IF body = <<>> \/ ~AllDigits(body) THEN Raised(ValueError)
        ELSE IF HasSign(s) /\ Head(s) = "-" THEN Ok(0 - DigitsVal(body))
        ELSE Ok(DigitsVal(body))

RECURSIVE Normal(_)
\* a decimal fraction num/den in lowest power of ten
Normal(f) ==
    IF f.den > 1 /\ f.num % 10 = 0
    THEN Normal([f EXCEPT !.num = f.num \div 10, !.den = f.den \div 10])
    ELSE f

DotAt(s) == IF \E i \in 1..Len(s) : s[i] = "."
            THEN CHOOSE i \in 1..Len(s) : s[i] = "." /\ \A j \in 1..(i - 1) : s[j] # "."
            ELSE 0

\* float(text) for plain decimal literals: blanks stripped, optional sign,
\* digits with an optional fraction, at least one digit.  The value is the
\* decimal fraction (neg, num/den).
ParseFloat(text) ==
    LET s == Strip(text)
        body == Unsigned(s)
        d == DotAt(body)
        ip == IF d = 0 THEN body ELSE SubSeq(body, 1, d - 1)
        fp == IF d = 0 THEN <<>> ELSE SubSeq(body, d + 1, Len(body))
    IN  IF ~AllDigits(ip) \/ ~AllDigits(fp) \/ Len(ip) + Len(fp) = 0
        THEN Raised(ValueError)
        ELSE Ok(Normal([neg |-> HasSign(s) /\ Head(s) = "-",
                        num |-> DigitsVal(ip \o fp),
                        den |-> Pow10(Len(fp))]))

RECURSIVE NatStr(_)
NatStr(n) ==
    IF n < 10 THEN <<DigitChars[n + 1]>>
    ELSE NatStr(n \div 10) \o <<DigitChars[(n % 10) + 1]>>

\* str(int)
IntStr(n) == IF n < 0 THEN <<"-">> \o NatStr(0 - n) ELSE NatStr(n)

RECURSIVE Log10(_)
Log10(den) == IF den = 1 THEN 0 ELSE 1 + Log10(den \div 10)

RECURSIVE ZeroPad(_, _)
ZeroPad(s, n) == IF Len(s) >= n THEN s ELSE ZeroPad(<<"0">> \o s, n)

\* str(float) in the fixed notation Python uses below 1e16
FloatStr(f) ==
    (IF f.neg THEN <<"-">> ELSE <<>>)
    \o NatStr(f.num \div f.den) \o <<".">>
    \o (IF f.den = 1 THEN <<"0">> ELSE ZeroPad(NatStr(f.num % f.den), Log10(f.den)))

\* ---------------------------------------------------------------- Product
\* the fields sorted by name
PRODUCT_FIELDS_SORTED == <<"description", "num_of_reviews", "price", "rating", "title">>

\* the dataclass fields, in declaration order
PRODUCT_FIELDS == <<"title", "description", "price", "rating", "num_of_reviews">>

Product(title, description, price, rating, num_of_reviews) ==
    [title |-> title, description |-> description, price |-> price,
     rating |-> rating, num_of_reviews |-> num_of_reviews]

\* A sub-element of an item: found or not, and its text when found.
Element(text) == [found |-> TRUE, text |-> text]
Missing == [found |-> FALSE, text |-> <<>>]
\* The .title link: its title attribute (None when the markup has none) and
\* its rendered text, which the page may show shortened.
TitleElement(attr, text) == [found |-> TRUE, attr |-> attr, text |-> text]

\* parse_single_product reading the rendered text of .title
parse_single_product_text(product_element) ==
    LET e == product_element
        price == ParseFloat(Remove(e.price.text, "$"))
        token == FirstToken(e.reviews.text)
        num == IF IsRaised(token) THEN token ELSE ParseInt(token.value)
    IN  IF ~e.title.found THEN Raised(NoSuchElementException)
        ELSE IF ~e.description.found THEN Raised(NoSuchElementException)
        ELSE IF ~e.price.found THEN Raised(NoSuchElementException)
        ELSE IF IsRaised(price) THEN price
        ELSE IF ~e.reviews.found THEN Raised(NoSuchElementException)
        ELSE IF IsRaised(num) THEN num
        ELSE Ok(Product(e.title.text, e.description.text, price.value,
                        e.stars, num.value))

\* parse_single_product: the keyword arguments are evaluated in order and
\* the first exception wins.  An item is the markup of one .thumbnail:
\* the title attribute of .title, the .description text, the .price text,
\* the number of star icons and the review text.
parse_single_product(product_element) ==
    LET e == product_element
        price == ParseFloat(Remove(e.price.text, "$"))
        token == FirstToken(e.reviews.text)
        num == IF IsRaised(token) THEN token ELSE ParseInt(token.value)
    IN  IF ~e.title.found THEN Raised(NoSuchElementException)
        ELSE IF ~e.description.found THEN Raised(NoSuchElementException)
        ELSE IF ~e.price.found THEN Raised(NoSuchElementException)
        ELSE IF IsRaised(price) THEN price
        ELSE IF ~e.reviews.found THEN Raised(NoSuchElementException)
        ELSE IF IsRaised(num) THEN num
        ELSE Ok(Product(e.title.attr, e.description.text, price.value,
                        e.stars, num.value))

\* get_single_page_products: the list comprehension over the elements found;
\* the first exception of an element leaves no list at all.
get_single_page_products(elements) ==
    LET parsed == [i \in 1..Len(elements) |-> parse_single_product(elements[i])]
    IN  IF \E i \in 1..Len(parsed) : IsRaised(parsed[i])
        THEN parsed[CHOOSE i \in 1..Len(parsed) :
                       /\ IsRaised(parsed[i])
                       /\ \A j \in 1..(i - 1) : ~IsRaised(parsed[j])]
        ELSE Ok([i \in 1..Len(parsed) |-> parsed[i].value])

\* astuple(product) as csv.writer writes it: None as the empty string,
\* every other value through str()
CsvRow(p) ==
    <<IF p.title = None THEN "" ELSE p.title, p.description,
      FloatStr(p.price), IntStr(p.rating), IntStr(p.num_of_reviews)>>

\* writerows given the list without its first record
write_products_to_csv_drop(prods) ==
    [header |-> PRODUCT_FIELDS,
     rows |-> [i \in 1..(Len(prods) - 1) |-> CsvRow(prods[i + 1])],
     written |-> TRUE]

\* write_products_to_csv: the file is truncated, then header and rows
write_products_to_csv(prods) ==
    [header |-> PRODUCT_FIELDS,
     rows |-> [i \in 1..Len(prods) |-> CsvRow(prods[i])],
     written |-> TRUE]

\* ------------------------------------------------------------ the site
\* Rendered items (the markup of one .thumbnail each).
Widget ==
    [title |-> TitleElement("Widget", "Widg..."), description |-> Element("A widget."),
     price |-> Element(<<"$", "1", "9", ".", "9", "9">>), stars |-> 3,
     reviews |-> Element(<<"1", "2", " ", "r", "e", "v", "i", "e", "w", "s">>)]
Gadget ==
    [title |-> TitleElement("Gadget", "Gadget"), description |-> Element(""),
     price |-> Element(<<"$", "5">>), stars |-> 0,
     reviews |-> Element(<<"7", " ", "r", "e", "v", "i", "e", "w", "s">>)]
BadPrice ==
    [title |-> TitleElement("Broken", "Broken"), description |-> Element("No price."),
     price |-> Element(<<"$", "a", "b", "c">>), stars |-> 2,
     reviews |-> Element(<<"4", " ", "r", "e", "v", "i", "e", "w", "s">>)]

ItemSet == {Widget, Gadget, BadPrice}

\* Items of a rarer make, each shown alone on a first page.
Refund ==
    [title |-> TitleElement("Refund", "Refund"), description |-> Element("Credit."),
     price |-> Element(<<"$", "-", "5">>), stars |-> 1,
     reviews |-> Element(<<"3", " ", "r", "e", "v", "i", "e", "w", "s">>)]
Untitled ==
    [title |-> TitleElement(None, "Thing"), description |-> Element("A thing."),
     price |-> Element(<<"$", "2", ".", "5", "0">>), stars |-> 4,
     reviews |-> Element(<<"9", " ", "r", "e", "v", "i", "e", "w", "s">>)]
BadReviews ==
    [title |-> TitleElement("Fresh", "Fresh"), description |-> Element("New."),
     price |-> Element(<<"$", "8">>), stars |-> 0,
     reviews |-> Element(<<"n", "o", " ", "r", "e", "v", "i", "e", "w", "s">>)]
NoPrice ==
    [title |-> TitleElement("Soon", "Soon"), description |-> Element("Not yet."),
     price |-> Missing, stars |-> 0,
     reviews |-> Element(<<"0", " ", "r", "e", "v", "i", "e", "w", "s">>)]
OddItems == {Refund, Untitled, BadReviews, NoPrice}

SeqsUpTo(S, n) == UNION {[1..k -> S] : k \in 0..n}
Pages == SeqsUpTo(ItemSet, MaxItems) \cup {<<x>> : x \in OddItems}

\* A category page: the items rendered on arrival and the items that the
\* "More" button reveals, one per click.
DefaultPage == [first |-> <<Widget, Gadget>>, rest |-> <<Gadget, Widget>>]

\* the six calls of get_all_products, in order
Categories == 1..6
Filename(c) ==
    <<"home.csv", "computers.csv", "laptops.csv", "tablets.csv",
      "phones.csv", "touch.csv">>[c]
CategorySelector(c) ==
    <<"#side-menu a", "#side-menu li:nth-of-type(2) a",
      "#side-menu li:nth-of-type(2) ul a",
      "#side-menu .nav-second-level li:nth-child(2) a",
      "#side-menu li:nth-of-type(3) a",
      "#side-menu li:nth-of-type(3) ul a">>[c]
\* the home call given a pagination selector
PaginationSelectorHome(c) ==
    <<".col-lg-9 > a", None, ".col-lg-9 > a", ".col-lg-9 > a", None, ".col-lg-9 > a">>[c]
PaginationSelector(c) ==
    <<None, None, ".col-lg-9 > a", ".col-lg-9 > a", None, ".col-lg-9 > a">>[c]
Filenames == {Filename(c) : c \in Categories}
\* filename.replace(".csv", "")
Stem(c) == <<"home", "computers", "laptops", "tablets", "phones", "touch">>[c]

\* The sites of a run: every category shows the default page except one,
\* whose first page is any page or which has no "More" button.
Sites ==
    {[c \in Categories |-> IF c = b THEN [DefaultPage EXCEPT !.first = p]
                                     ELSE DefaultPage] :
        b \in Categories, p \in Pages}
    \cup
    {[c \in Categories |-> IF c = b THEN [DefaultPage EXCEPT !.rest = <<>>]
                                     ELSE DefaultPage] :
        b \in Categories}

\* ----------------------------------------------------------------- state
VARIABLES
    pc,        \* position in get_all_products / scrape_products
    cat,       \* the category of the current scrape_products call (0: none)
    session,   \* the Chrome session: "none", "open", "released"
    driver,    \* the module global _driver
    site,      \* the content of the site, fixed during a run
    view,      \* the items rendered in the browser now
    products,  \* the local `products` of scrape_products
    files,     \* file name -> content written in this run, or None
    exc,       \* the exception that left get_all_products, or None
    trace,     \* page operations, writes and log lines so far
    returned,  \* what the last completed scrape_products call returned
    result     \* what get_all_products returned

vars == <<pc, cat, session, driver, site, view, products, files, exc, trace,
          returned, result>>

Event(op, c, arg) == [op |-> op, cat |-> c, arg |-> arg]
Log(c, msg) == Event("log", c, msg)

NoFile == [header |-> <<>>, rows |-> <<>>, written |-> FALSE]

\* What a call gave back: nothing yet, the value None, or a value.
Pending == [returned |-> FALSE, none |-> FALSE, value |-> <<>>]
ReturnNone == [returned |-> TRUE, none |-> TRUE, value |-> <<>>]
Return(v) == [returned |-> TRUE, none |-> FALSE, value |-> v]

Init ==
    /\ pc = "start"
    /\ cat = 0
    /\ session = "none"
    /\ driver = None
    /\ site \in Sites
    /\ view = <<>>
    /\ products = <<>>
    /\ files = [f \in Filenames |-> NoFile]
    /\ exc = None
    /\ trace = <<>>
    /\ returned = Pending
    /\ result = Pending

\* ----------------------------------------------------------- operations
HOME_URL == "https://webscraper.io/test-sites/e-commerce/more/"

\* a plain assignment instead of the with block
WithExitLeak(s) == s

\* `with webdriver.Chrome() as new_driver`: leaving the block, normally or
\* by an exception, quits the session.
WithExit(s) == "released"

\* An exception leaves get_all_products through the with block; `events`
\* are the operations of the failing statement that did happen.
Abort(e, events) ==
    /\ pc' = "failed"
    /\ exc' = e
    /\ session' = WithExit(session)
    /\ trace' = trace \o events \o <<Event("quit", 0, "")>>
    /\ UNCHANGED <<cat, driver, site, view, products, files, returned, result>>

\* webdriver.Chrome(), set_driver(new_driver), driver = get_driver()
Acquire ==
    /\ pc = "start"
    /\ session' = "open"
    /\ driver' = "chrome"
    /\ pc' = "get"
    /\ UNCHANGED <<cat, site, view, products, files, exc, trace, returned, result>>

\* webdriver.Chrome() fails to start a browser: no session, nothing to quit
AcquireFail ==
    /\ pc = "start"
    /\ pc' = "failed"
    /\ exc' = WebDriverException
    /\ UNCHANGED <<cat, session, driver, site, view, products, files, trace, returned, result>>

\* driver.get(HOME_URL)
Navigate ==
    /\ pc = "get"
    /\ trace' = Append(trace, Event("get", 0, HOME_URL))
    /\ view' = site[1].first
    /\ pc' = "cookies"
    /\ UNCHANGED <<cat, session, driver, site, products, files, exc, returned, result>>

NavigateFail ==
    /\ pc = "get"
    /\ Abort(WebDriverException, <<Event("get", 0, HOME_URL)>>)

\* accept_cookies with `except Exception` in place of the not-found case
accept_cookies_catch_all(banner) ==
    IF banner = "found"
    THEN [events |-> <<Event("locate_cookie", 0, "found"),
                       Event("click_cookie", 0, "native"),
                       Log(0, "Cookie was successfully accepted")>>,
          raised |-> None]
    ELSE [events |-> <<Event("locate_cookie", 0,
                             IF banner = "absent" THEN "absent" ELSE "found"),
                       Log(0, "Cookie accept button not found.")>>,
          raised |-> None]

\* accept_cookies without its try/except
accept_cookies_uncaught(banner) ==
    IF banner = "absent"
    THEN [events |-> <<Event("locate_cookie", 0, "absent")>>,
          raised |-> NoSuchElementException]
    ELSE IF banner = "covered"
    THEN [events |-> <<Event("locate_cookie", 0, "found")>>,
          raised |-> ElementClickInterceptedException]
    ELSE [events |-> <<Event("locate_cookie", 0, "found"),
                       Event("click_cookie", 0, "native"),
                       Log(0, "Cookie was successfully accepted")>>,
          raised |-> None]

\* accept_cookies for a banner button that is "found", "absent" or
\* "covered" (found, but the native click is intercepted): the operations
\* performed and the exception that leaves the function, if any.
accept_cookies(banner) ==
    IF banner = "absent"
    THEN [events |-> <<Event("locate_cookie", 0, "absent"),
                       Log(0, "Cookie accept button not found.")>>,
          raised |-> None]
    ELSE IF banner = "covered"
    THEN [events |-> <<Event("locate_cookie", 0, "found")>>,
          raised |-> ElementClickInterceptedException]
    ELSE [events |-> <<Event("locate_cookie", 0, "found"),
                       Event("click_cookie", 0, "native"),
                       Log(0, "Cookie was successfully accepted")>>,
          raised |-> None]

Banners == {"found", "absent", "covered"}

AcceptCookies ==
    /\ pc = "cookies"
    /\ \E banner \in Banners :
          /\ accept_cookies(banner).raised = None
          /\ trace' = trace \o accept_cookies(banner).events
    /\ pc' = "entry"
    /\ cat' = 1
    /\ UNCHANGED <<session, driver, site, view, products, files, exc, returned, result>>

AcceptCookiesFail ==
    /\ pc = "cookies"
    /\ \E banner \in Banners :
          /\ accept_cookies(banner).raised # None
          /\ Abort(accept_cookies(banner).raised, accept_cookies(banner).events)

StartLog(c) == Log(c, "Start parsing " \o Stem(c) \o " products")

\* scrape_products, up to the entry link being found
LocateEntry ==
    /\ pc = "entry"
    /\ trace' = trace \o <<StartLog(cat),
                           Event("locate_entry", cat, CategorySelector(cat))>>
    /\ pc' = "click_entry"
    /\ UNCHANGED <<cat, session, driver, site, view, products, files, exc, returned, result>>

\* the missing entry link logged and the category skipped
LocateEntryFailSkipped ==
    /\ pc = "entry"
    /\ trace' = trace \o <<StartLog(cat), Event("locate_entry", cat, "absent")>>
    /\ IF cat + 1 \in Categories
       THEN pc' = "entry" /\ cat' = cat + 1
       ELSE pc' = "exit" /\ cat' = cat
    /\ UNCHANGED <<session, driver, site, view, products, files, exc, returned, result>>

\* driver.find_element(category_selector) raises: nobody catches it
LocateEntryFail ==
    /\ pc = "entry"
    /\ Abort(NoSuchElementException,
             <<StartLog(cat), Event("locate_entry", cat, "absent")>>)

\* where scrape_products goes after the click on the category link
AfterEntry(c) == IF PaginationSelector(c) # None THEN "more" ELSE "harvest"

\* driver.execute_script("arguments[0].click();", category_link)
ClickEntry ==
    /\ pc = "click_entry"
    /\ trace' = Append(trace, Event("click_entry", cat, "script"))
    /\ view' = site[cat].first
    /\ pc' = AfterEntry(cat)
    /\ UNCHANGED <<cat, session, driver, site, products, files, exc, returned, result>>

\* What the page shows of the "More" button: not in the DOM, display block
\* while items remain to be revealed, display none afterwards.
Revealed == Len(view) - Len(site[cat].first)
ButtonDisplay ==
    IF site[cat].rest = <<>> THEN "absent"
    ELSE IF Revealed < Len(site[cat].rest) THEN "block"
    ELSE "none"

\* the except branch without its break
more_iteration_no_break(c, obs) ==
    IF obs = "absent"
    THEN [events |-> <<Event("locate_more", c, "absent"),
                       Log(c, "Reached the last page of products or 'More' button not found.")>>,
          click |-> FALSE, break |-> FALSE]
    ELSE IF obs = "none"
    THEN [events |-> <<Event("locate_more", c, "found"),
                       Event("display", c, "none"),
                       Log(c, "Reached the last page of products or 'More' button not found.")>>,
          click |-> FALSE, break |-> TRUE]
    ELSE [events |-> <<Event("locate_more", c, "found"),
                       Event("display", c, obs),
                       Log(c, "More button found, attempting to click."),
                       Event("click_more", c, "script")>>,
          click |-> TRUE, break |-> FALSE]

\* the display test raising after the click instead of before it
more_iteration_click_hidden(c, obs) ==
    IF obs = "absent"
    THEN [events |-> <<Event("locate_more", c, "absent"),
                       Log(c, "Reached the last page of products or 'More' button not found.")>>,
          click |-> FALSE, break |-> TRUE]
    ELSE [events |-> <<Event("locate_more", c, "found"),
                       Event("display", c, obs),
                       Log(c, "More button found, attempting to click."),
                       Event("click_more", c, "script")>>
                     \o (IF obs = "none"
                         THEN <<Log(c, "Reached the last page of products or 'More' button not found.")>>
                         ELSE <<>>),
          click |-> TRUE, break |-> obs = "none"]

\* the except branch logging the message of the exception it caught
more_iteration_log_exception(c, obs) ==
    IF obs = "absent"
    THEN [events |-> <<Event("locate_more", c, "absent"),
                       Log(c, "Reached the last page of products or 'More' button not found.")>>,
          click |-> FALSE, break |-> TRUE]
    ELSE IF obs = "none"
    THEN [events |-> <<Event("locate_more", c, "found"),
                       Event("display", c, "none"),
                       Log(c, "'More' button is no longer visible.")>>,
          click |-> FALSE, break |-> TRUE]
    ELSE [events |-> <<Event("locate_more", c, "found"),
                       Event("display", c, obs),
                       Log(c, "More button found, attempting to click."),
                       Event("click_more", c, "script")>>,
          click |-> TRUE, break |-> FALSE]

\* One iteration of the while loop for what find_element and the display
\* property give: the operations performed, whether the button was clicked
\* and whether the loop is left.
more_iteration(c, obs) ==
    IF obs = "absent"
    THEN [events |-> <<Event("locate_more", c, "absent"),
                       Log(c, "Reached the last page of products or 'More' button not found.")>>,
          click |-> FALSE, break |-> TRUE]
    ELSE IF obs = "none"
    THEN [events |-> <<Event("locate_more", c, "found"),
                       Event("display", c, "none"),
                       Log(c, "Reached the last page of products or 'More' button not found.")>>,
          click |-> FALSE, break |-> TRUE]
    ELSE [events |-> <<Event("locate_more", c, "found"),
                       Event("display", c, obs),
                       Log(c, "More button found, attempting to click."),
                       Event("click_more", c, "script")>>,
          click |-> TRUE, break |-> FALSE]

\* the while loop body; the button may also be missed although the page
\* has it (the implicit wait runs out)
CheckMore ==
    /\ pc = "more"
    /\ \E obs \in {ButtonDisplay, "absent"} :
          LET it == more_iteration(cat, obs) IN
          /\ trace' = trace \o it.events
          /\ view' = IF it.click /\ Revealed < Len(site[cat].rest)
                     THEN Append(view, site[cat].rest[Revealed + 1])
                     ELSE view
          /\ pc' = IF it.break THEN "harvest" ELSE "more"
    /\ UNCHANGED <<cat, session, driver, site, products, files, exc, returned, result>>

\* more_button.value_of_css_property raises on a button that was replaced
\* after it was found: not a NoSuchElementException, so not caught
CheckMoreFail ==
    /\ pc = "more"
    /\ ButtonDisplay # "absent"
    /\ Abort(StaleElementReferenceException,
             <<Event("locate_more", cat, "found")>>)

\* products = get_single_page_products(driver)
Harvest ==
    /\ pc = "harvest"
    /\ ~IsRaised(get_single_page_products(view))
    /\ products' = get_single_page_products(view).value
    /\ trace' = Append(trace, Event("harvest", cat, ""))
    /\ pc' = "write"
    /\ UNCHANGED <<cat, session, driver, site, view, files, exc, returned, result>>

\* the file opened (and so truncated) before the items are extracted
HarvestFailAfterOpen ==
    /\ pc = "harvest"
    /\ IsRaised(get_single_page_products(view))
    /\ pc' = "failed"
    /\ exc' = get_single_page_products(view).raised
    /\ session' = WithExit(session)
    /\ files' = [files EXCEPT ![Filename(cat)] =
                    [header |-> PRODUCT_FIELDS, rows |-> <<>>, written |-> TRUE]]
    /\ trace' = trace \o <<Event("harvest", cat, ""), Event("quit", 0, "")>>
    /\ UNCHANGED <<cat, driver, site, view, products, returned, result>>

HarvestFail ==
    /\ pc = "harvest"
    /\ IsRaised(get_single_page_products(view))
    /\ Abort(get_single_page_products(view).raised,
             <<Event("harvest", cat, "")>>)

\* the laptops call left out
NextCategorySkip(c) == IF c = 2 THEN 4 ELSE c + 1

\* the call of get_all_products that follows the call for category c
NextCategory(c) == c + 1

\* scrape_products ending without a return statement
scrape_products_return_nothing(prods) == ReturnNone

\* `return products`, the last line of scrape_products
scrape_products_return(prods) == Return(prods)

\* write_products_to_csv(products, filename); return products; the caller
\* does nothing with the value
Write ==
    /\ pc = "write"
    /\ files' = [files EXCEPT ![Filename(cat)] = write_products_to_csv(products)]
    /\ trace' = Append(trace, Event("write", cat, Filename(cat)))
    /\ returned' = scrape_products_return(products)
    /\ IF NextCategory(cat) \in Categories
       THEN pc' = "entry" /\ cat' = NextCategory(cat)
       ELSE pc' = "exit" /\ cat' = cat
    /\ UNCHANGED <<session, driver, site, view, products, exc, result>>

\* the OSError of the write caught and the next category started
WriteFailSkipped ==
    /\ pc = "write"
    /\ trace' = Append(trace, Event("open", cat, Filename(cat)))
    /\ IF cat + 1 \in Categories
       THEN pc' = "entry" /\ cat' = cat + 1
       ELSE pc' = "exit" /\ cat' = cat
    /\ UNCHANGED <<session, driver, site, view, products, files, exc, returned, result>>

\* open(filename, "w") fails
WriteFail ==
    /\ pc = "write"
    /\ Abort(OSError, <<Event("open", cat, Filename(cat))>>)

\* the handle cleared when the with block is left
ExitResetDriver ==
    /\ pc = "exit"
    /\ session' = WithExit(session)
    /\ trace' = Append(trace, Event("quit", 0, ""))
    /\ pc' = "done"
    /\ result' = ReturnNone
    /\ driver' = None
    /\ UNCHANGED <<cat, site, view, products, files, exc, returned>>

\* the end of the with block and of get_all_products, which has no return
\* statement
Exit ==
    /\ pc = "exit"
    /\ session' = WithExit(session)
    /\ trace' = Append(trace, Event("quit", 0, ""))
    /\ pc' = "done"
    /\ result' = ReturnNone
    /\ UNCHANGED <<cat, driver, site, view, products, files, exc, returned>>

Next ==
    \/ Acquire
    \/ AcquireFail
    \/ Navigate
    \/ NavigateFail
    \/ AcceptCookies
    \/ AcceptCookiesFail
    \/ LocateEntry
    \/ LocateEntryFail
    \/ ClickEntry
    \/ CheckMore
    \/ CheckMoreFail
    \/ Harvest
    \/ HarvestFail
    \/ Write
    \/ WriteFail
    \/ Exit

Spec == Init /\ [][Next]_vars

\* ------------------------------------------- parse_single_product alone
\* The items of the parsing runs: every combination of these sub-elements.
ParseTitles == {TitleElement("Widget", "Widg..."), TitleElement("Gadget", "Gadget")}
ParseDescriptions == {Element("A widget."), Element("")}
ParsePrices ==
    {Element(<<"$", "1", "9", ".", "9", "9">>), Element(<<"$", "5">>),
     Element(<<"$", ".", "5">>), Element(<<"$", "a", "b", "c">>), Element(<<"$">>)}
ParseReviews ==
    {Element(<<"1", "2", " ", "r", "e", "v", "i", "e", "w", "s">>),
     Element(<<"7", " ", "r", "e", "v", "i", "e", "w", "s">>),
     Element(<<"n", "o", " ", "r", "e", "v", "i", "e", "w", "s">>),
     Element(<<>>)}
ParseItems ==
    {[title |-> t, description |-> d, price |-> p, stars |-> n, reviews |-> r] :
        t \in ParseTitles, d \in ParseDescriptions, p \in ParsePrices,
        n \in 0..MaxStars, r \in ParseReviews}

\* one rendered item, about to be given to parse_single_product
ParseInit ==
    /\ pc = "parse"
    /\ cat = 0
    /\ session = "open"
    /\ driver = "chrome"
    /\ site = [c \in Categories |-> DefaultPage]
    /\ view \in {<<e>> : e \in ParseItems}
    /\ products = <<>>
    /\ files = [f \in Filenames |-> NoFile]
    /\ exc = None
    /\ trace = <<>>
    /\ returned = Pending
    /\ result = Pending

\* parse_single_product(product) returns the Product
ParseProduct ==
    /\ pc = "parse"
    /\ ~IsRaised(parse_single_product(view[1]))
    /\ products' = <<parse_single_product(view[1]).value>>
    /\ pc' = "parsed"
    /\ UNCHANGED <<cat, session, driver, site, view, files, exc, trace, returned, result>>

\* parse_single_product(product) raises
ParseProductFail ==
    /\ pc = "parse"
    /\ IsRaised(parse_single_product(view[1]))
    /\ exc' = parse_single_product(view[1]).raised
    /\ pc' = "parsed"
    /\ UNCHANGED <<cat, session, driver, site, view, products, files, trace, returned, result>>

ParseNext == ParseProduct \/ ParseProductFail

ParseSpec == ParseInit /\ [][ParseNext]_vars

TypeOK ==
    /\ pc \in {"start", "get", "cookies", "entry", "click_entry", "more",
               "harvest", "write", "exit", "done", "failed", "parse", "parsed"}
    /\ cat \in 0..6
    /\ session \in {"none", "open", "released"}

\* ------------------------------------------------------------ the trace
Positions == 1..Len(trace)
Ops(c, op) == {i \in Positions : trace[i].cat = c /\ trace[i].op = op}
Count(c, op) == Cardinality(Ops(c, op))
Is(i, op, c, arg) == trace[i] = Event(op, c, arg)
\* a check that finds the button gone: not in the DOM, or display none
Exhausting(i) ==
    \/ trace[i].op = "locate_more" /\ trace[i].arg = "absent"
    \/ trace[i].op = "display" /\ trace[i].arg = "none"
LoopOps == {"locate_more", "display", "click_more"}

\* ----------------------------------------------------------------- C1
MalformedPrice(e) ==
    e.price.found /\ IsRaised(ParseFloat(Remove(e.price.text, "$")))
PriceParses(e) == ~MalformedPrice(e)
WellFormedSiblings(elements) == SelectSeq(elements, PriceParses)

\* C1: a harvest of a page with N items of which K have a malformed price
\* text does not abort the run and yields the N-K records of the other
\* items, in page order, for the write that follows.
C1_PartialFailureIsolation ==
    [][pc = "harvest" =>
          /\ pc' = "write"
          /\ Len(products') = Len(view) - Cardinality({i \in 1..Len(view) : MalformedPrice(view[i])})
          /\ products' = get_single_page_products(WellFormedSiblings(view)).value]_vars

\* ----------------------------------------------------------------- C2
\* C2: a check of the "More" button that finds it absent or with display
\* none is the last iteration of the loop of that category (no later
\* locate, display read or click for it, and the program has left the
\* loop); a loop whose first check finds nothing makes one check and no
\* click.
C2_LoadMoreTerminates ==
    \A i \in Positions :
        Exhausting(i) =>
            /\ \A j \in Positions :
                  j > i /\ trace[j].cat = trace[i].cat => trace[j].op \notin LoopOps
            /\ trace[i].cat = cat => pc # "more"
            /\ (\A j \in Ops(trace[i].cat, "locate_more") : j >= i)
                  => /\ Count(trace[i].cat, "click_more") = 0
                     /\ Count(trace[i].cat, "locate_more") = 1

\* a loop was left at its first check, and one after two clicks
C2_Witness ==
    /\ pc = "done"
    /\ \E c \in Categories : Count(c, "locate_more") = 1
    /\ \E c \in Categories : Count(c, "locate_more") = 3

\* ----------------------------------------------------------------- C3
VisibleChecks(c) ==
    {i \in Positions : trace[i].cat = c /\ trace[i].op = "display" /\ trace[i].arg # "none"}

\* C3: the clicks on the "More" button of a category are exactly its checks
\* that found it displayed: each click follows such a check with no other
\* check in between, a loop that ended after k such checks has k clicks
\* and k+1 checks, and no click follows the check that ended it.
C3_ExactlyKClicks ==
    \A c \in Categories :
        /\ Count(c, "click_more") = Cardinality(VisibleChecks(c))
        /\ \A i \in Ops(c, "click_more") :
              /\ i > 2
              /\ trace[i - 2].cat = c /\ trace[i - 2].op = "display"
              /\ trace[i - 2].arg # "none"
        /\ \A i \in Positions :
              trace[i].cat = c /\ Exhausting(i) =>
                  /\ Count(c, "locate_more") = Count(c, "click_more") + 1
                  /\ \A j \in Ops(c, "click_more") : j < i

\* scenario C: displayed twice, then absent; two clicks
C3_Witness ==
    \E c \in Categories :
        /\ Count(c, "click_more") = 2
        /\ \E i \in Ops(c, "locate_more") : trace[i].arg = "absent"
        /\ Count(c, "harvest") = 1

\* ----------------------------------------------------------------- C4
Unpaginated == {1, 2, 5}

\* C4: for home, computers and phones nothing is done with a "More" button
\* (no locate, no display read, no click); the harvest, the only one,
\* comes right after the click on the category link, and what is written
\* is what the page showed on arrival.
C4_NoControllerWithoutSelector ==
    \A c \in Unpaginated :
        /\ \A op \in LoopOps : Count(c, op) = 0
        /\ Count(c, "harvest") <= 1
        /\ \A i \in Ops(c, "harvest") : i > 1 /\ Is(i - 1, "click_entry", c, "script")
        /\ files[Filename(c)].written =>
              /\ Count(c, "harvest") = 1
              /\ Len(files[Filename(c)].rows) = Len(site[c].first)

\* phones is written although its page has a "More" button
C4_Witness ==
    /\ files["phones.csv"].written
    /\ site[5].rest # <<>>
    /\ Len(files["phones.csv"].rows) = Len(site[5].first)
    /\ Len(site[5].first) >= 1

\* ----------------------------------------------------------------- C5
FlowOps == {"click_entry", "click_more", "harvest", "write"}
Rank(op) ==
    IF op = "click_entry" THEN 1
    ELSE IF op = "click_more" THEN 2
    ELSE IF op = "harvest" THEN 3
    ELSE 4
IsFlow(e) == e.op \in FlowOps
\* the clicks, harvests and writes of the run, in the order they happened
Flow == SelectSeq(trace, IsFlow)
DeclaredNames ==
    <<"home.csv", "computers.csv", "laptops.csv", "tablets.csv",
      "phones.csv", "touch.csv">>

\* C5: the clicks, harvests and writes of a run come category after
\* category in the order home, computers, laptops, tablets, phones, touch;
\* within a category the entry click, then the "More" clicks, then (for
\* laptops, tablets and touch: after the check that found the button gone)
\* one harvest, then one write under the category's name; nothing is done for
\* a category before the previous one is written, and a run that ends
\* normally has done all six.
C5_DeclarationOrder ==
    LET flow == Flow IN
    /\ \A k \in 1..(Len(flow) - 1) :
          /\ flow[k].cat <= flow[k + 1].cat
          /\ flow[k].cat = flow[k + 1].cat => Rank(flow[k].op) <= Rank(flow[k + 1].op)
    /\ \A c \in Categories :
          LET entries == Count(c, "click_entry")
              harvests == Count(c, "harvest")
              writes == Count(c, "write")
          IN  /\ entries <= 1
              /\ harvests <= 1
              /\ writes <= 1
              /\ writes = 1 => harvests = 1
              /\ harvests = 1 => entries = 1
              /\ \A i \in Ops(c, "write") : trace[i].arg = DeclaredNames[c]
              /\ (c > 1 /\ \E i \in Positions : trace[i].cat = c)
                    => Count(c - 1, "write") = 1
              /\ pc = "done" => writes = 1
    /\ \A c \in {3, 4, 6} :
          \A h \in Ops(c, "harvest") :
              \E i \in 1..(h - 1) : trace[i].cat = c /\ Exhausting(i)

\* a complete run in which every paginated category was clicked on
C5_Witness ==
    /\ pc = "done"
    /\ \A c \in {3, 4, 6} : Count(c, "click_more") >= 1

\* ----------------------------------------------------------------- C6
\* C6: a write that completes puts into the category's file one row per
\* record of the harvest, the i-th row being the i-th record, and touches
\* no other file; the records are those of the items in the view, in order.
C6_RowsAreHarvestedRecords ==
    [][/\ (pc = "write" /\ pc' # "failed") =>
             /\ Len(files'[Filename(cat)].rows) = Len(products)
             /\ \A i \in 1..Len(products) :
                   files'[Filename(cat)].rows[i] = CsvRow(products[i])
             /\ \A f \in Filenames \ {Filename(cat)} : files'[f] = files[f]
       /\ (pc = "harvest" /\ pc' = "write") =>
             /\ Len(products') = Len(view)
             /\ \A i \in 1..Len(view) :
                   products'[i] = parse_single_product(view[i]).value]_vars

\* four rows, of two different products, in a file
C6_Witness ==
    /\ files["laptops.csv"].written
    /\ Len(files["laptops.csv"].rows) = 4
    /\ files["laptops.csv"].rows[1] # files["laptops.csv"].rows[2]
    /\ files["laptops.csv"].rows[1][3] = <<"1", "9", ".", "9", "9">>

\* ----------------------------------------------------------------- C7
\* C7 as stated: the header row is title,description,price,rating,numOfReviews
C7_HeaderAsStated ==
    \A f \in Filenames :
        files[f].written =>
            files[f].header = <<"title", "description", "price", "rating", "numOfReviews">>

\* C7: every file written starts with the header row
\* title,description,price,rating,num_of_reviews, whatever the records.
C7_HeaderIsFieldNames ==
    \A f \in Filenames :
        files[f].written =>
            files[f].header = <<"title", "description", "price", "rating", "num_of_reviews">>

\* a file with no rows and a file with rows
C7_Witness ==
    /\ \E f \in Filenames : files[f].written /\ files[f].rows = <<>>
    /\ \E f \in Filenames : files[f].written /\ Len(files[f].rows) >= 2

\* ----------------------------------------------------------------- C8
Terminal == {"done", "failed"}

\* C8: no run ends with the session open; once the session is released the
\* run is over, and nothing more is done with the page.
C8_SessionReleased ==
    [][/\ pc' \in Terminal => session' # "open"
       /\ session' = "released" => pc' \in Terminal
       /\ session = "released" => trace' = trace /\ view' = view]_vars

\* released after a failure of the extraction, with files already written
C8_Witness ==
    /\ pc = "failed"
    /\ exc = ValueError
    /\ session = "released"
    /\ files["computers.csv"].written
    /\ trace[Len(trace)].op = "quit"
    /\ \A i \in 1..(Len(trace) - 1) : trace[i].op # "quit"

\* ----------------------------------------------------------------- C9
\* C9: the cookie button is looked for at most once, right after the
\* navigation and before anything is done for a category; when it is not
\* found, the next thing is the log line, no click on it happens, and the
\* run stands at the first category with nothing else changed.
C9_CookiesOnce ==
    /\ Count(0, "locate_cookie") <= 1
    /\ \A i \in Ops(0, "locate_cookie") : i = 2 /\ trace[1].op = "get"
    /\ \A j \in Positions :
          trace[j].cat >= 1 => j > 2 /\ trace[2].op = "locate_cookie"
    /\ \A i \in Ops(0, "locate_cookie") :
          trace[i].arg = "absent" =>
              /\ Is(i + 1, "log", 0, "Cookie accept button not found.")
              /\ Count(0, "click_cookie") = 0
              /\ Len(trace) = i + 1 =>
                    /\ pc = "entry" /\ cat = 1 /\ exc = None
                    /\ session = "open" /\ view = site[1].first
                    /\ \A f \in Filenames : ~files[f].written

\* a complete run whose cookie button was not found
C9_Witness ==
    /\ pc = "done"
    /\ \E i \in Ops(0, "locate_cookie") : trace[i].arg = "absent"

\* ---------------------------------------------------------------- C10
\* C10: when the entry link of a category is not found the run ends there
\* with the NoSuchElementException: it was looked for once, nothing
\* follows but the end of the session, nothing is clicked, harvested or
\* written for this or a later category, and the step leaves every file
\* as it was (the earlier categories written, the others not).
C10_EntryNotFoundIsFatal ==
    /\ [](\A i \in Positions :
             trace[i].op = "locate_entry" /\ trace[i].arg = "absent" =>
                 /\ pc = "failed" /\ exc = NoSuchElementException
                 /\ Len(trace) = i + 1 /\ trace[i + 1].op = "quit"
                 /\ Count(trace[i].cat, "locate_entry") = 1
                 /\ \A c \in Categories :
                       /\ c >= trace[i].cat =>
                             /\ \A op \in FlowOps \cup LoopOps : Count(c, op) = 0
                             /\ ~files[Filename(c)].written
                       /\ c < trace[i].cat => files[Filename(c)].written)
    /\ [][(\E i \in 1..Len(trace') : trace'[i].op = "locate_entry" /\ trace'[i].arg = "absent")
             => files' = files]_vars

\* the link of the fourth category is not found
C10_Witness ==
    /\ \E i \in Positions : Is(i, "locate_entry", 4, "absent")
    /\ files["laptops.csv"].written
    /\ Len(files["laptops.csv"].rows) = 3

\* ---------------------------------------------------------------- C11
AnyOps == FlowOps \cup LoopOps \cup {"locate_entry", "open", "log"}

\* C11: when the file of a category cannot be opened the run ends there
\* with the OSError and without a return value: the file was tried once,
\* nothing follows but the end of the session, nothing at all is done for
\* a later category, and the failing step writes to no file.
C11_WriteErrorAborts ==
    /\ [](\A i \in Positions :
             trace[i].op = "open" =>
                 /\ pc = "failed" /\ exc = OSError /\ result = Pending
                 /\ Len(trace) = i + 1 /\ trace[i + 1].op = "quit"
                 /\ Count(trace[i].cat, "open") = 1
                 /\ Count(trace[i].cat, "write") = 0
                 /\ ~files[Filename(trace[i].cat)].written
                 /\ \A c \in Categories :
                       c > trace[i].cat =>
                           /\ \A op \in AnyOps : Count(c, op) = 0
                           /\ ~files[Filename(c)].written)
    /\ [][pc = "write" /\ pc' = "failed" => files' = files /\ exc' = OSError]_vars

\* the write of the third category fails after two files were written
C11_Witness ==
    /\ exc = OSError
    /\ \E i \in Positions : Is(i, "open", 3, "laptops.csv")
    /\ files["home.csv"].written /\ files["computers.csv"].written

\* ---------------------------------------------------------------- C12
\* C12: every record that a write persists has its five fields populated
\* with a value of the declared type: the title a text (not None, and not
\* an empty column in the file), the description a text, the price a
\* number, the rating and the review count integers.
C12_PersistedRecordsTyped ==
    [][(pc = "write" /\ pc' # "failed") =>
          \A i \in 1..Len(products) :
              LET row == files'[Filename(cat)].rows[i] IN
              /\ products[i].title # None
              /\ Len(row) = Len(PRODUCT_FIELDS)
              /\ row[1] # ""
              /\ ~IsRaised(ParseFloat(row[3]))
              /\ ~IsRaised(ParseInt(row[4]))
              /\ ~IsRaised(ParseInt(row[5]))]_vars

\* ---------------------------------------------------------------- C13
\* C13 as stated: a run that ends normally returns a mapping from the six
\* output names to the products harvested for each.
C13_ReturnsRunResult ==
    pc = "done" =>
        /\ result.returned
        /\ ~result.none
        /\ \A c \in Categories :
              /\ Len(result.value[Filename(c)]) = Len(files[Filename(c)].rows)
              /\ \A i \in 1..Len(files[Filename(c)].rows) :
                    files[Filename(c)].rows[i] = CsvRow(result.value[Filename(c)][i])

\* C13: get_all_products returns None, and only at the normal end of the
\* run; each completed scrape_products call returns the products of the
\* items in the view, in order, which are the rows it wrote; a file, once
\* written, is not changed again in the run.
C13_ResultsOnlyInFiles ==
    [][/\ (pc = "write" /\ pc' # "failed") =>
             /\ returned'.returned /\ ~returned'.none
             /\ Len(returned'.value) = Len(view)
             /\ \A i \in 1..Len(view) :
                   /\ returned'.value[i] = parse_single_product(view[i]).value
                   /\ files'[Filename(cat)].rows[i] = CsvRow(returned'.value[i])
       /\ pc' = "done" => result' = ReturnNone
       /\ result' # Pending => pc' = "done"
       /\ \A f \in Filenames : files[f].written => files'[f] = files[f]]_vars

\* a complete run: six files, the last call returned four products, the
\* run returned None
C13_Witness ==
    /\ pc = "done"
    /\ result = ReturnNone
    /\ \A f \in Filenames : files[f].written
    /\ returned.returned /\ Len(returned.value) = 4

\* ---------------------------------------------------------------- C14
Hidden(i) == trace[i].op = "display" /\ trace[i].arg = "none"
Absent(i) == trace[i].op = "locate_more" /\ trace[i].arg = "absent"
\* the check that ended a loop is followed by a log line, then the harvest
StopsAt(i) ==
    /\ Len(trace) > i /\ trace[i + 1].op = "log"
    /\ Len(trace) = i + 1 => pc = "harvest" /\ cat = trace[i].cat
    /\ Len(trace) > i + 1 => Is(i + 2, "harvest", trace[i].cat, "")

\* C14 as stated: a hidden button and an absent button stop the loop alike,
\* with different log messages.
C14_HiddenLoggedDifferently ==
    \A i, j \in Positions :
        Hidden(i) /\ Absent(j) =>
            /\ StopsAt(i) /\ StopsAt(j)
            /\ trace[i + 1].arg # trace[j + 1].arg

\* C14: a hidden button and an absent button stop the loop alike (no
\* click, the harvest is next), and the log line is the same for both:
\* Reached the last page of products or 'More' button not found.
C14_HiddenStopsLikeAbsent ==
    \A i \in Positions :
        Hidden(i) \/ Absent(i) =>
            /\ StopsAt(i)
            /\ trace[i + 1].arg =
                  "Reached the last page of products or 'More' button not found."

\* a run that left one loop on a hidden button and one on an absent button
C14_Witness ==
    /\ pc = "done"
    /\ \E i \in Positions : Hidden(i)
    /\ \E j \in Positions : Absent(j)

\* ---------------------------------------------------------------- C15
\* the numbers that the well-formed price and review texts denote
PriceDenoted(text) ==
    CASE text = <<"$", "1", "9", ".", "9", "9">> -> [neg |-> FALSE, num |-> 1999, den |-> 100]
      [] text = <<"$", "5">> -> [neg |-> FALSE, num |-> 5, den |-> 1]
      [] text = <<"$", ".", "5">> -> [neg |-> FALSE, num |-> 5, den |-> 10]
CountDenoted(text) ==
    CASE text = <<"1", "2", " ", "r", "e", "v", "i", "e", "w", "s">> -> 12
      [] text = <<"7", " ", "r", "e", "v", "i", "e", "w", "s">> -> 7
WellFormedItem(e) ==
    /\ e.price.text \in {<<"$", "1", "9", ".", "9", "9">>, <<"$", "5">>, <<"$", ".", "5">>}
    /\ e.reviews.text \in {<<"1", "2", " ", "r", "e", "v", "i", "e", "w", "s">>,
                           <<"7", " ", "r", "e", "v", "i", "e", "w", "s">>}

\* C15: for a well-formed item parse_single_product raises nothing and
\* returns the Product of the title attribute (not the rendered text), the
\* description text (empty or not), the number the price text denotes
\* without its "$", the number of star icons (0 included) and the integer
\* of the first token of the review text; ("Widget", "A widget.",
\* "$19.99", 3 stars, "12 reviews") gives ("Widget", "A widget.", 19.99, 3, 12).
C15_ParseWellFormed ==
    pc = "parsed" =>
        /\ WellFormedItem(view[1]) =>
              /\ exc = None
              /\ products =
                    <<[title |-> view[1].title.attr,
                       description |-> view[1].description.text,
                       price |-> PriceDenoted(view[1].price.text),
                       rating |-> view[1].stars,
                       num_of_reviews |-> CountDenoted(view[1].reviews.text)]>>
        /\ view[1] = Widget =>
              products =
                  <<[title |-> "Widget", description |-> "A widget.",
                     price |-> [neg |-> FALSE, num |-> 1999, den |-> 100],
                     rating |-> 3, num_of_reviews |-> 12]>>

\* the example of the claim was parsed
C15_Witness ==
    /\ pc = "parsed"
    /\ view = <<Widget>>
    /\ Len(products) = 1
    /\ products[1].title = "Widget" /\ products[1].rating = 3

\* ---------------------------------------------------------------- C16
\* C16: no harvested record and no row of a category file has a negative
\* price; an item priced "$-5" is never written with a negative price.
C16_NonNegativePrice ==
    /\ \A f \in Filenames : \A i \in 1..Len(files[f].rows) :
          /\ ~IsRaised(ParseFloat(files[f].rows[i][3]))
          /\ ~ParseFloat(files[f].rows[i][3]).value.neg

\* ---------------------------------------------------------------- C17
\* the extraction of the category at position i of the trace raised
HarvestRaised(i) ==
    /\ i + 1 <= Len(trace)
    /\ trace[i].op = "harvest"
    /\ trace[i + 1].op = "quit"

\* C17: a file is opened only right after the harvest of its category has
\* returned; when extraction raises for category i the run ends there with
\* that exception, nothing is opened or written for category i or a later
\* one, their files do not exist, the step changes no file, and the files
\* of the categories before i are as they were written.
C17_OpenOnlyAfterHarvest ==
    /\ [](\A i \in Positions :
             /\ trace[i].op \in {"write", "open"} =>
                   /\ i > 1
                   /\ trace[i - 1] = Event("harvest", trace[i].cat, "")
             /\ HarvestRaised(i) =>
                   /\ pc = "failed" /\ exc # None /\ result = Pending
                   /\ Len(trace) = i + 1
                   /\ \A c \in Categories :
                         /\ c >= trace[i].cat =>
                               /\ Count(c, "write") = 0 /\ Count(c, "open") = 0
                               /\ files[Filename(c)] = NoFile
                         /\ c < trace[i].cat =>
                               /\ Count(c, "write") = 1
                               /\ files[Filename(c)].written)
    /\ [][pc = "harvest" /\ pc' = "failed" => files' = files]_vars

\* extraction raised in the third category, after two files were written
C17_Witness ==
    /\ \E i \in Positions : Is(i, "harvest", 3, "") /\ HarvestRaised(i)
    /\ exc \in {ValueError, IndexError, NoSuchElementException}
    /\ files["home.csv"].written
    /\ Len(files["computers.csv"].rows) = 2
    /\ ~files["laptops.csv"].written

\* ---------------------------------------------------------------- C18
\* C18: the consent button is clicked natively; a button that is not found
\* is logged and the run goes on; a button that is found is either clicked
\* or, when the click is intercepted, the exception leaves the run at
\* once: nothing but the session's release follows, no category is
\* visited and no file is written.
C18_OnlyNotFoundTolerated ==
    /\ [](\A i \in Positions :
             /\ trace[i].op = "click_cookie" => trace[i].arg = "native"
             /\ Is(i, "locate_cookie", 0, "absent") =>
                   /\ i + 1 <= Len(trace)
                   /\ trace[i + 1] = Log(0, "Cookie accept button not found.")
                   /\ exc # NoSuchElementException \/ Len(trace) > i + 2
             /\ Is(i, "locate_cookie", 0, "found") =>
                   /\ i + 1 <= Len(trace)
                   /\ \/ trace[i + 1] = Event("click_cookie", 0, "native")
                      \/ /\ trace[i + 1] = Event("quit", 0, "")
                         /\ Len(trace) = i + 1
                         /\ exc = ElementClickInterceptedException)
    /\ [](exc = ElementClickInterceptedException =>
             /\ pc = "failed" /\ cat = 0 /\ session = "released"
             /\ trace = <<Event("get", 0, HOME_URL),
                          Event("locate_cookie", 0, "found"),
                          Event("quit", 0, "")>>
             /\ \A f \in Filenames : files[f] = NoFile)
    /\ [][pc = "cookies" /\ pc' = "failed" =>
             exc' = ElementClickInterceptedException /\ files' = files]_vars

\* the click on the consent button was intercepted
C18_Witness ==
    /\ pc = "failed"
    /\ exc = ElementClickInterceptedException
    /\ \E i \in Positions : Is(i, "locate_cookie", 0, "found")
    /\ \A i \in Positions : trace[i].op # "click_cookie"

\* ---------------------------------------------------------------- C19
\* C19: the handle is None until the run sets it, it is set once, to the
\* handle of the new session and before any page operation, and nothing
\* resets it: when the run has ended and the session is released the
\* handle is still that session's.
C19_DriverSetOnce ==
    /\ [](/\ pc = "start" => driver = None /\ trace = <<>>
          /\ trace # <<>> => driver = "chrome"
          /\ session # "none" => driver = "chrome"
          /\ pc = "done" => driver = "chrome" /\ session = "released")
    /\ [][driver' # driver =>
             /\ pc = "start" /\ driver = None /\ trace = <<>>
             /\ driver' = "chrome" /\ session' = "open"]_vars

\* the run ended normally, the session is released, the handle remains
C19_Witness ==
    /\ pc = "done"
    /\ session = "released"
    /\ driver = "chrome"
====
